---- MODULE Spec2Model ----
(***************************************************************************)
(* Model of fat-sorter.py: FATSorter.sort_directory_entries (the two-phase *)
(* move through a scratch directory), FATSorter.sort_directory_recursive   *)
(* (the tree walk) and the interrupt handling of main.                     *)
(*                                                                         *)
(* A name is a sequence of character codes, so that str.lower and          *)
(* startswith('.') are computed and not assumed.  A directory is the       *)
(* sequence of its entries in enumeration order; an entry that is created  *)
(* in, or moved into, a directory is appended at the end of that order.    *)
(* shutil.move is a rename on one filesystem: it either happens or raises  *)
(* and changes nothing.                                                    *)
(***************************************************************************)
EXTENDS Integers, Sequences, FiniteSets, TLC

\* ------------------------------------------------------------------ bounds
\* environment events in one behaviour: filesystem calls that raise, and
\* interrupts delivered
MaxEvents == 1
\* times the tool is started
MaxRuns == 2

\* ------------------------------------------------------------- characters
Dot == 46
UpperA == 65
UpperZ == 90
CaseOffset == 32
Digit0 == 48

\* --------------------------------------------------------- the file tree
\* The directory the tool is started on, and what may be under it:
\*   root/{b/, a, A, .h/}   b/{d/, E/}   d/{g, f}   E/{}   .h/{z, y}
\* f is a symbolic link whose target is missing.
Root == "root"
TopNodes == {"b", "a", "A", "hid"}
ContentNodes == {Root, "b", "a", "A", "hid", "d", "E", "g", "f", "hz", "hy"}
ScratchNodes == {"s1", "s2", "s3", "s4", "s5", "s6"}
Nodes == ContentNodes \cup ScratchNodes

InitName ==
  [n \in Nodes |->
     CASE n = "b" -> <<98>>
       [] n = "a" -> <<97>>
       [] n = "A" -> <<65>>
       [] n = "hid" -> <<Dot, 104>>
       [] n = "d" -> <<100>>
       [] n = "E" -> <<69>>
       [] n = "g" -> <<103>>
       [] n = "f" -> <<102>>
       [] n = "hz" -> <<122>>
       [] n = "hy" -> <<121>>
       [] OTHER -> <<>>]

\* "dir", "file", "link" (a dangling symbolic link) or "none" (no such node)
InitKind ==
  [n \in Nodes |->
     IF n \in {Root, "b", "hid", "d", "E"} THEN "dir"
     ELSE IF n = "f" THEN "link"
     ELSE IF n \in ContentNodes THEN "file"
     ELSE "none"]

\* ----------------------------------------------------------- sequences
Range(s) == {s[i] : i \in 1..Len(s)}

Perms(S) == {s \in [1..Cardinality(S) -> S] : Range(s) = S}

Arrangements(S) == UNION {Perms(T) : T \in SUBSET S}

RECURSIVE Without(_, _)
Without(s, x) ==
  IF s = <<>> THEN <<>>
  ELSE IF Head(s) = x THEN Without(Tail(s), x)
  ELSE <<Head(s)>> \o Without(Tail(s), x)

Front(s) == SubSeq(s, 1, Len(s) - 1)

\* ------------------------------------------------------------- str.lower
LowerChar(c) == IF c >= UpperA /\ c <= UpperZ THEN c + CaseOffset ELSE c

Lower(nm) == [i \in 1..Len(nm) |-> LowerChar(nm[i])]

\* Python's < on strings: code point by code point, a proper prefix is less
RECURSIVE StrLess(_, _)
StrLess(x, y) ==
  IF y = <<>> THEN FALSE
  ELSE IF x = <<>> THEN TRUE
  ELSE IF Head(x) # Head(y) THEN Head(x) < Head(y)
  ELSE StrLess(Tail(x), Tail(y))

\* the sort key of sorted(entries, key=str.lower)
SortKey_exact(nm) == nm
SortKey(nm) == Lower(nm)

\* x goes after every element whose key is not greater (stable)
RECURSIVE InsertSorted_unstable(_, _)
InsertSorted_unstable(s, x) ==
  IF s = <<>> THEN <<x>>
  ELSE IF ~StrLess(SortKey(Head(s)), SortKey(x)) THEN <<x>> \o s
  ELSE <<Head(s)>> \o InsertSorted_unstable(Tail(s), x)
RECURSIVE InsertSorted(_, _)
InsertSorted(s, x) ==
  IF s = <<>> THEN <<x>>
  ELSE IF StrLess(SortKey(x), SortKey(Head(s))) THEN <<x>> \o s
  ELSE <<Head(s)>> \o InsertSorted(Tail(s), x)

RECURSIVE sorted(_)
sorted(entries) ==
  IF entries = <<>> THEN <<>>
  ELSE InsertSorted(sorted(Front(entries)), entries[Len(entries)])

is_sorted_strict(entries) ==
  \A i \in 1..(Len(entries) - 1) : StrLess(Lower(entries[i]), Lower(entries[i + 1]))
is_sorted(entries) ==
  IF Len(entries) <= 1 THEN TRUE ELSE entries = sorted(entries)

IsHidden(nm) == Len(nm) > 0 /\ nm[1] = Dot

\* int(time.time()) written in decimal
RECURSIVE Decimal(_)
Decimal(t) == IF t < 10 THEN <<Digit0 + t>> ELSE Decimal(t \div 10) \o <<Digit0 + (t % 10)>>

\* ".fat_sort_temp_"
TempPrefix == <<Dot, 102, 97, 116, 95, 115, 111, 114, 116, 95, 116, 101, 109, 112, 95>>

TempDirName(t) == TempPrefix \o Decimal(t)

\* ------------------------------------------------------------------ state
VARIABLES
  children,         \* directory node -> its entries in enumeration order
  name,             \* node -> its name
  kind,             \* node -> "dir", "file", "link" or "none"
  clock,            \* int(time.time()) as last read
  pc,               \* where the process is
  stack,            \* the activations of sort_directory_recursive
  runs,             \* how many times the tool was started
  events,           \* filesystem calls that raised and interrupts delivered
  current_entries,  \* locals of sort_directory_entries
  sorted_entries,
  moved_entries,
  temp_dir,
  idx,              \* position of the running for loop
  result,           \* what sort_directory_entries returns
  final,            \* what sort_directory_recursive returned to main
  intr,             \* an interrupt was delivered in this run
  preFs,            \* children when the running reorder began
  listFailed,       \* outcome of this reorder's steps
  mkdirFailed,
  p1Failed,
  p2Failed,
  skipped,
  p1Tried,
  p2Tried,
  moves,            \* the moves this reorder attempted, in order
  rmdirFailed,      \* temp_dir.rmdir() raised
  visited,          \* directories reordered in this run, in call order
  changedDirs,      \* directories whose reorder returned True in this run
  failedDirs,       \* directories whose reorder met an error in this run
  iterFailed,       \* directories whose subdirectory listing raised
  movedEver,        \* nodes some shutil.move was called on
  log,              \* directory -> the outcomes of its reorders, all runs
  ended             \* directories whose reorder has returned in this run, in order

fsVars == <<children, name, kind, clock>>
ctlVars == <<pc, stack, runs, events>>
callVars == <<current_entries, sorted_entries, moved_entries, temp_dir, idx, result>>
callHist == <<preFs, listFailed, mkdirFailed, p1Failed, p2Failed, skipped, p1Tried, p2Tried,
              moves, rmdirFailed>>
runHist == <<final, intr, visited, changedDirs, failedDirs, iterFailed>>
vars == <<fsVars, ctlVars, callVars, callHist, runHist, movedEver, log, ended>>

\* ------------------------------------------------------- filesystem reads
Names(d) == [i \in 1..Len(children[d]) |-> name[children[d][i]]]

NotHidden(nm) == ~IsHidden(nm)

\* directory.iterdir() without the names that start with '.'; [] on an error
get_directory_entries_all(d, readable) == IF readable THEN Names(d) ELSE <<>>
get_directory_entries(d, readable) ==
  IF readable THEN SelectSeq(Names(d), NotHidden) ELSE <<>>

HasName(d, nm) == \E n \in Range(children[d]) : name[n] = nm

Lookup(d, nm) == CHOOSE n \in Range(children[d]) : name[n] = nm

\* Path.exists() follows symbolic links
PathExists(d, nm) == HasName(d, nm) /\ kind[Lookup(d, nm)] # "link"

\* Path.is_dir()
PathIsDir(d, nm) == HasName(d, nm) /\ kind[Lookup(d, nm)] = "dir"

\* shutil.move(from/n, to/n) when it succeeds
MovedFs_copy(n, from, to) ==
  [children EXCEPT ![to] = Append(@, n)]
MovedFs_lose(n, from, to) ==
  [children EXCEPT ![from] = Without(@, n)]
MovedFs(n, from, to) ==
  [children EXCEPT ![from] = Without(@, n), ![to] = Append(@, n)]

NewScratch == CHOOSE n \in ScratchNodes : kind[n] = "none"

Frame(d) == [dir |-> d, listing |-> <<>>, processed |-> 0, sorted_count |-> 0]

Top == stack[Len(stack)]

SetTop(f) == [stack EXCEPT ![Len(stack)] = f]

NoLog == [n \in Nodes |-> <<>>]

\* -------------------------------------------------------------------- Init
RootListings == {top \in Arrangements(TopNodes) : Len(top) <= 3}

\* a scratch directory an earlier run of the same second left in the root: the
\* case in which mkdir(exist_ok=False) finds its name taken
LeftScratch == "s6"

LeftOverRoots == {<<"b", "a">>}

Init ==
  /\ \E top \in RootListings, sub \in Perms({"d", "E"}), low \in {<<"g", "f">>},
        left \in BOOLEAN :
       /\ ("b" \notin Range(top)) => (sub = <<"d", "E">>)
       /\ left => (top \in LeftOverRoots /\ sub = <<"d", "E">>)
       /\ children = [n \in Nodes |->
                        CASE n = Root -> IF left THEN Append(top, LeftScratch) ELSE top
                          [] n = "b" -> sub
                          [] n = "d" -> low
                          [] n = "hid" -> <<"hz", "hy">>
                          [] OTHER -> <<>>]
       /\ name = IF left THEN [InitName EXCEPT ![LeftScratch] = TempDirName(0)]
                 ELSE InitName
       /\ kind = IF left THEN [InitKind EXCEPT ![LeftScratch] = "dir"] ELSE InitKind
  /\ clock = 0
  /\ pc = "start"
  /\ stack = <<>>
  /\ runs = 0
  /\ events = 0
  /\ current_entries = <<>>
  /\ sorted_entries = <<>>
  /\ moved_entries = <<>>
  /\ temp_dir = Root
  /\ idx = 1
  /\ result = FALSE
  /\ final = <<0, 0>>
  /\ intr = FALSE
  /\ preFs = children
  /\ listFailed = FALSE
  /\ mkdirFailed = FALSE
  /\ p1Failed = {}
  /\ p2Failed = {}
  /\ skipped = {}
  /\ p1Tried = 0
  /\ p2Tried = 0
  /\ moves = <<>>
  /\ rmdirFailed = FALSE
  /\ visited = <<>>
  /\ changedDirs = {}
  /\ failedDirs = {}
  /\ iterFailed = {}
  /\ movedEver = {}
  /\ log = NoLog
  /\ ended = <<>>

\* a filesystem call may raise, within the budget of events
Outcomes == IF events < MaxEvents THEN {TRUE, FALSE} ELSE {TRUE}

Fault(ok) == IF ok THEN events ELSE events + 1

\* ------------------------------------------------------------------- main
\* main: a run of the tool calls sort_directory_recursive(target_dir); the tool
\* is started again only after a run that ran to its end
StartRun ==
  /\ pc \in {"start", "done"}
  /\ runs < MaxRuns
  /\ runs' = runs + 1
  /\ stack' = <<Frame(Root)>>
  /\ pc' = "enter"
  /\ final' = <<0, 0>>
  /\ intr' = FALSE
  /\ visited' = <<>>
  /\ changedDirs' = {}
  /\ failedDirs' = {}
  /\ iterFailed' = {}
  /\ ended' = <<>>
  /\ UNCHANGED <<fsVars, events, callVars, callHist, movedEver, log>>

\* ------------------------------------------------- sort_directory_entries
\* processed += 1, then the listing and the already-sorted check
Enter ==
  /\ pc = "enter"
  /\ \E readable \in Outcomes :
       LET d == Top.dir
           ce == get_directory_entries(d, readable)
           skip == ce = <<>> \/ is_sorted(ce)
       IN /\ stack' = SetTop([Top EXCEPT !.processed = @ + 1])
          /\ current_entries' = ce
          /\ sorted_entries' = IF skip THEN <<>> ELSE sorted(ce)
          /\ pc' = IF skip THEN "ret" ELSE "mkdir"
          /\ events' = Fault(readable)
          /\ listFailed' = ~readable
          /\ failedDirs' = IF readable THEN failedDirs ELSE failedDirs \cup {d}
          /\ visited' = Append(visited, d)
  /\ result' = FALSE
  /\ moved_entries' = <<>>
  /\ temp_dir' = Root
  /\ idx' = 1
  /\ preFs' = children
  /\ mkdirFailed' = FALSE
  /\ p1Failed' = {}
  /\ p2Failed' = {}
  /\ skipped' = {}
  /\ p1Tried' = 0
  /\ p2Tried' = 0
  /\ moves' = <<>>
  /\ rmdirFailed' = FALSE
  /\ UNCHANGED <<fsVars, runs, final, intr, changedDirs, iterFailed, movedEver, log, ended>>

\* The seconds of the clock as a run may read them: the same second as the
\* last reading or a later one.  Only a name left behind by an earlier run can
\* coincide with a new scratch name, so the first run reads 0 and every later
\* run may find the clock one second further.
ClockReadings == clock..(runs - 1)

\* the outer handler, reached from mkdir: log and return False
MkdirFailed_goOn(d) ==
  /\ mkdirFailed' = TRUE
  /\ failedDirs' = failedDirs \cup {d}
  /\ result' = FALSE
  /\ pc' = "p1"
  /\ UNCHANGED <<children, name, kind, temp_dir>>
MkdirFailed(d) ==
  /\ mkdirFailed' = TRUE
  /\ failedDirs' = failedDirs \cup {d}
  /\ result' = FALSE
  /\ pc' = "ret"
  /\ UNCHANGED <<children, name, kind, temp_dir>>

\* temp_dir.mkdir(exist_ok=False); an exception goes to the outer handler
Mkdir ==
  /\ pc = "mkdir"
  /\ \E t \in ClockReadings, ok \in Outcomes :
       LET d == Top.dir
           tn == TempDirName(t)
           s == NewScratch
       IN /\ HasName(d, tn) => ok
          /\ clock' = t
          /\ events' = Fault(ok)
          /\ IF HasName(d, tn) \/ ~ok
             THEN MkdirFailed(d)
             ELSE /\ kind' = [kind EXCEPT ![s] = "dir"]
                  /\ name' = [name EXCEPT ![s] = tn]
                  /\ children' = [children EXCEPT ![d] = Append(@, s), ![s] = <<>>]
                  /\ temp_dir' = s
                  /\ pc' = "p1"
                  /\ UNCHANGED <<mkdirFailed, failedDirs, result>>
  /\ moved_entries' = <<>>
  /\ idx' = 1
  /\ UNCHANGED <<stack, runs, current_entries, sorted_entries, final, intr,
                 preFs, listFailed, p1Failed, p2Failed, skipped, p1Tried, p2Tried,
                 moves, rmdirFailed, visited, changedDirs, iterFailed, movedEver, log, ended>>

\* the handler of the first loop: log, and go on with the next entry
Phase1Failed_outer(d, entry_name) ==
  /\ p1Failed' = p1Failed \cup {entry_name}
  /\ failedDirs' = failedDirs \cup {d}
  /\ result' = FALSE
  /\ pc' = "ret"
  /\ UNCHANGED <<idx, children, moved_entries>>
Phase1Failed_retry(d, entry_name) ==
  /\ p1Failed' = p1Failed \cup {entry_name}
  /\ failedDirs' = failedDirs \cup {d}
  /\ pc' = "p1"
  /\ UNCHANGED <<idx, children, moved_entries, result>>
Phase1Failed(d, entry_name) ==
  /\ p1Failed' = p1Failed \cup {entry_name}
  /\ failedDirs' = failedDirs \cup {d}
  /\ idx' = idx + 1
  /\ pc' = "p1"
  /\ UNCHANGED <<children, moved_entries, result>>

\* Phase 1, one iteration: directory/entry_name -> temp_dir/entry_name
Phase1 ==
  /\ pc = "p1"
  /\ idx <= Len(sorted_entries)
  /\ LET d == Top.dir
         entry_name == sorted_entries[idx]
     IN IF PathExists(d, entry_name)
        THEN \E ok \in Outcomes :
               /\ events' = Fault(ok)
               /\ p1Tried' = p1Tried + 1
               /\ moves' = Append(moves, [phase |-> 1, entry |-> entry_name, ok |-> ok])
               /\ movedEver' = movedEver \cup {Lookup(d, entry_name)}
               /\ skipped' = skipped
               /\ IF ok
                  THEN /\ children' = MovedFs(Lookup(d, entry_name), d, temp_dir)
                       /\ moved_entries' = Append(moved_entries, entry_name)
                       /\ pc' = "p1sync"
                       /\ UNCHANGED <<idx, p1Failed, failedDirs, result>>
                  ELSE Phase1Failed(d, entry_name)
        ELSE /\ skipped' = skipped \cup {entry_name}
             /\ idx' = idx + 1
             /\ pc' = "p1"
             /\ UNCHANGED <<children, moved_entries, events, p1Tried, moves,
                            movedEver, p1Failed, failedDirs, result>>
  /\ UNCHANGED <<name, kind, clock, stack, runs, current_entries,
                 sorted_entries, temp_dir, final, intr, preFs, listFailed,
                 mkdirFailed, p2Failed, p2Tried, rmdirFailed, visited, changedDirs,
                 iterFailed, log, ended>>

\* the first loop is exhausted
Phase1Done ==
  /\ pc = "p1"
  /\ idx > Len(sorted_entries)
  /\ pc' = "p2"
  /\ idx' = 1
  /\ UNCHANGED <<fsVars, stack, runs, events, current_entries, sorted_entries,
                 moved_entries, temp_dir, result, callHist, runHist, movedEver, log, ended>>

\* sync_filesystem after a move: os.sync() and the settle delay
Sync ==
  /\ pc \in {"p1sync", "p2sync"}
  /\ pc' = IF pc = "p1sync" THEN "p1" ELSE "p2"
  /\ idx' = idx + 1
  /\ UNCHANGED <<fsVars, stack, runs, events, current_entries, sorted_entries,
                 moved_entries, temp_dir, result, callHist, runHist, movedEver, log, ended>>

\* the sequence the second loop runs over
Phase2Entries_all == sorted_entries
Phase2Entries == moved_entries

\* Phase 2, one iteration: temp_dir/entry_name -> directory/entry_name
Phase2 ==
  /\ pc = "p2"
  /\ idx <= Len(Phase2Entries)
  /\ LET d == Top.dir
         entry_name == Phase2Entries[idx]
         present == HasName(temp_dir, entry_name)
     IN \E ok \in (IF present THEN Outcomes ELSE {FALSE}) :
          /\ events' = IF present THEN Fault(ok) ELSE events
          /\ p2Tried' = p2Tried + 1
          /\ moves' = Append(moves, [phase |-> 2, entry |-> entry_name, ok |-> ok])
          /\ movedEver' = IF present THEN movedEver \cup {Lookup(temp_dir, entry_name)}
                          ELSE movedEver
          /\ IF ok
             THEN /\ children' = MovedFs(Lookup(temp_dir, entry_name), temp_dir, d)
                  /\ pc' = "p2sync"
                  /\ UNCHANGED <<idx, p2Failed, failedDirs>>
             ELSE /\ p2Failed' = p2Failed \cup {entry_name}
                  /\ failedDirs' = failedDirs \cup {d}
                  /\ idx' = idx + 1
                  /\ pc' = "p2"
                  /\ UNCHANGED children
  /\ UNCHANGED <<name, kind, clock, stack, runs, current_entries,
                 sorted_entries, moved_entries, temp_dir, result, final, intr, preFs,
                 listFailed, mkdirFailed, p1Failed, skipped, p1Tried, rmdirFailed,
                 visited, changedDirs, iterFailed, log, ended>>

\* the second loop is exhausted
Phase2Done ==
  /\ pc = "p2"
  /\ idx > Len(Phase2Entries)
  /\ pc' = "rmdir"
  /\ UNCHANGED <<fsVars, stack, runs, events, current_entries, sorted_entries,
                 moved_entries, temp_dir, idx, result, callHist, runHist, movedEver, log, ended>>

\* Path.rmdir() raises OSError on a directory that is not empty
RmdirRefuses_never(s) == FALSE
RmdirRefuses(s) == children[s] # <<>>

\* temp_dir.rmdir() with its own handler, then return True
Rmdir ==
  /\ pc = "rmdir"
  /\ \E ok \in Outcomes :
       LET d == Top.dir
       IN /\ RmdirRefuses(temp_dir) => ok
          /\ events' = Fault(ok)
          /\ rmdirFailed' = (RmdirRefuses(temp_dir) \/ ~ok)
          /\ IF ~RmdirRefuses(temp_dir) /\ ok
             THEN /\ children' = [children EXCEPT ![d] = Without(@, temp_dir)]
                  /\ kind' = [kind EXCEPT ![temp_dir] = "none"]
                  /\ name' = [name EXCEPT ![temp_dir] = <<>>]
             ELSE UNCHANGED <<children, kind, name>>
  /\ result' = TRUE
  /\ pc' = "ret"
  /\ UNCHANGED <<clock, stack, runs, current_entries, sorted_entries,
                 moved_entries, temp_dir, idx, preFs, listFailed, mkdirFailed,
                 p1Failed, p2Failed, skipped, p1Tried, p2Tried, moves, runHist,
                 movedEver, log, ended>>

\* ----------------------------------------------- sort_directory_recursive
\* what one reorder did, kept for the comparison of successive runs
PreNames(d) == [i \in 1..Len(preFs[d]) |-> name[preFs[d][i]]]

Outcome(d) ==
  [result |-> result,
   before |-> PreNames(d),
   after |-> Names(d),
   drained |-> result /\ Len(moved_entries) = Len(current_entries)]

\* back in sort_directory_recursive: if the reorder returned True, sorted_count += 1
Ret ==
  /\ pc = "ret"
  /\ LET d == Top.dir
     IN /\ stack' = SetTop([Top EXCEPT !.sorted_count = IF result THEN @ + 1 ELSE @])
        /\ changedDirs' = IF result THEN changedDirs \cup {d} ELSE changedDirs
        /\ log' = [log EXCEPT ![d] = Append(@, Outcome(d))]
        /\ ended' = Append(ended, d)
  /\ pc' = "iter"
  /\ UNCHANGED <<fsVars, runs, events, callVars, callHist, final, intr,
                 visited, failedDirs, iterFailed, movedEver>>

\* except PermissionError / except Exception of sort_directory_recursive
IterFailed_propagate(d) ==
  /\ iterFailed' = iterFailed \cup {d}
  /\ pc' = "exit1"
  /\ stack' = <<>>
IterFailed(d) ==
  /\ iterFailed' = iterFailed \cup {d}
  /\ pc' = "pop"
  /\ UNCHANGED stack

\* what root_directory.iterdir() yields: the directory as it is now, after the
\* reorder
iterdir_original(d) == current_entries
iterdir(d) == Names(d)

\* root_directory.iterdir() of the recursion loop; an exception ends this activation
Iter ==
  /\ pc = "iter"
  /\ \E ok \in Outcomes :
       LET d == Top.dir
       IN /\ events' = Fault(ok)
          /\ IF ok
             THEN /\ stack' = SetTop([Top EXCEPT !.listing = iterdir(d)])
                  /\ pc' = "loop"
                  /\ UNCHANGED iterFailed
             ELSE IterFailed(d)
  /\ UNCHANGED <<fsVars, runs, callVars, callHist, final, intr, visited,
                 changedDirs, failedDirs, movedEver, log, ended>>

\* the for loop takes the next entry of the listing
Advance_stay(f) == f
Advance(f) == [f EXCEPT !.listing = Tail(@)]

\* one iteration of the recursion loop: recurse into a non-hidden directory
Loop ==
  /\ pc = "loop"
  /\ LET d == Top.dir
         rest == Advance(Top)
     IN IF Top.listing = <<>>
        THEN /\ pc' = "pop"
             /\ UNCHANGED stack
        ELSE IF PathIsDir(d, Head(Top.listing)) /\ ~IsHidden(Head(Top.listing))
        THEN /\ stack' = Append(SetTop(rest), Frame(Lookup(d, Head(Top.listing))))
             /\ pc' = "enter"
        ELSE /\ stack' = SetTop(rest)
             /\ pc' = "loop"
  /\ UNCHANGED <<fsVars, runs, events, callVars, callHist, runHist,
                 movedEver, log, ended>>

\* processed += sub_processed; sorted_count += sub_sorted
Merge_processedOnly(parent, child) ==
  [parent EXCEPT !.processed = @ + child.processed]
Merge(parent, child) ==
  [parent EXCEPT !.processed = @ + child.processed,
                 !.sorted_count = @ + child.sorted_count]

\* return processed, sorted_count: to the calling activation or to main
Pop ==
  /\ pc = "pop"
  /\ IF Len(stack) = 1
     THEN /\ final' = <<Top.processed, Top.sorted_count>>
          /\ stack' = <<>>
          /\ pc' = "done"
     ELSE /\ stack' = [Front(stack) EXCEPT ![Len(stack) - 1] = Merge(@, Top)]
          /\ pc' = "loop"
          /\ UNCHANGED final
  /\ UNCHANGED <<fsVars, runs, events, callVars, callHist, intr, visited,
                 changedDirs, failedDirs, iterFailed, movedEver, log, ended>>

\* ------------------------------------------------------ KeyboardInterrupt
\* Inside sync_filesystem the bare except swallows it and the loop goes on;
\* anywhere else no handler below main takes it (it is not an Exception) and
\* main exits with status 1.
Interrupt ==
  /\ pc \notin {"start", "done", "exit1"}
  /\ events < MaxEvents
  /\ events' = events + 1
  /\ intr' = TRUE
  /\ IF pc \in {"p1sync", "p2sync"}
     THEN /\ pc' = IF pc = "p1sync" THEN "p1" ELSE "p2"
          /\ idx' = idx + 1
          /\ UNCHANGED stack
     ELSE /\ pc' = "exit1"
          /\ stack' = <<>>
          /\ UNCHANGED idx
  /\ UNCHANGED <<fsVars, runs, current_entries, sorted_entries, moved_entries,
                 temp_dir, result, callHist, final, visited, changedDirs, failedDirs,
                 iterFailed, movedEver, log, ended>>

Next ==
  \/ StartRun
  \/ Enter
  \/ Mkdir
  \/ Phase1
  \/ Phase1Done
  \/ Sync
  \/ Phase2
  \/ Phase2Done
  \/ Rmdir
  \/ Ret
  \/ Iter
  \/ Loop
  \/ Pop
  \/ Interrupt

Spec == Init /\ [][Next]_vars

\* The tool is one sequential process: once started it takes its next step
\* (the settle delay of sync_filesystem is finite).  Nothing obliges a user to
\* start the tool, nor an interrupt to arrive.  FairSpec is the tool started
\* once, on any of the initial trees.
Step ==
  \/ Enter
  \/ Mkdir
  \/ Phase1
  \/ Phase1Done
  \/ Sync
  \/ Phase2
  \/ Phase2Done
  \/ Rmdir
  \/ Ret
  \/ Iter
  \/ Loop
  \/ Pop

\* one walk: main calls sort_directory_recursive once
FirstRun == runs = 0 /\ StartRun

WalkNext ==
  \/ FirstRun
  \/ Step
  \/ Interrupt

FairSpec == Init /\ [][WalkNext]_vars /\ WF_vars(Step)

\* ------------------------------------------------------------------ types
TypeOK ==
  /\ pc \in {"start", "enter", "mkdir", "p1", "p1sync", "p2", "p2sync", "rmdir", "ret",
             "iter", "loop", "pop", "done", "exit1"}
  /\ runs \in 0..MaxRuns
  /\ events \in 0..MaxEvents
  /\ clock \in 0..(MaxRuns - 1)
  /\ \A n \in Nodes : kind[n] \in {"dir", "file", "link", "none"}

\* ============================================================ properties
\* the directory of the running reorder, and what it lists now
Dir == Top.dir

Listed(d) == SelectSeq(Names(d), NotHidden)

PreListed(d) == SelectSeq(PreNames(d), NotHidden)

NoDuplicates(s) == Cardinality(Range(s)) = Len(s)

\* the name of the scratch directory this reorder created, if it created one
ScratchName == IF temp_dir = Root THEN {} ELSE {TempDirName(clock)}

\* keys never decrease along the sequence
InOrder(entries) ==
  \A i, j \in 1..Len(entries) :
    i < j => ~StrLess(Lower(entries[j]), Lower(entries[i]))

Returned == pc = "ret"

\* where x stands in s
Pos(s, x) == CHOOSE i \in 1..Len(s) : s[i] = x

\* names that are equal under case-folding and stand in both sequences stand
\* in the same relative order in both
TiesKept(before, after) ==
  \A x, y \in Range(before) \cap Range(after) :
    (x # y /\ Lower(x) = Lower(y)) =>
       (Pos(before, x) < Pos(before, y) <=> Pos(after, x) < Pos(after, y))

\* a directory the recursion loop goes into
IsSubdir(n) == kind[n] = "dir" /\ ~IsHidden(name[n])

\* the entries of d the walk was called on, in the order of the calls
VisitedIn(d) ==
  LET In(n) == n \in Range(children[d]) IN SelectSeq(visited, In)

NodeNamed(nm) == CHOOSE n \in Nodes : name[n] = nm

\* what d held before its last reorder
LastBefore(d) == log[d][Len(log[d])].before

\* the moves of this reorder: those of Phase 1 that succeeded, all of Phase 1,
\* and those of Phase 2, by the name moved
IsPhase1(m) == m.phase = 1

IsPhase1Ok(m) == m.phase = 1 /\ m.ok

IsPhase2(m) == m.phase = 2

EntriesOf(ms) == [i \in 1..Len(ms) |-> ms[i].entry]

P1Attempted == EntriesOf(SelectSeq(moves, IsPhase1))

P1Moved == EntriesOf(SelectSeq(moves, IsPhase1Ok))

P2Sources == EntriesOf(SelectSeq(moves, IsPhase2))

IsPrefix(s, t) == Len(s) <= Len(t) /\ s = SubSeq(t, 1, Len(s))

\* how many entries of d bear the name
Occurrences(d, nm) ==
  Cardinality({i \in 1..Len(children[d]) : name[children[d][i]] = nm})

\* the reorder is between the creation of its scratch directory and its return
InReorder == pc \in {"p1", "p1sync", "p2", "p2sync", "rmdir", "ret"} /\ temp_dir # Root

\* two names of the sequence are equal under case-folding
HasTie(entries) ==
  \E i, j \in 1..Len(entries) : i < j /\ Lower(entries[i]) = Lower(entries[j])

\* directories reached from d through non-hidden directory entries
RECURSIVE DirsUnder(_)
DirsUnder(d) ==
  {d} \cup UNION {DirsUnder(c) : c \in {n \in Range(children[d]) :
                                          kind[n] = "dir" /\ ~IsHidden(name[n])}}

\* the same, not looking below a directory whose subdirectory listing raised
RECURSIVE DirsListedUnder(_)
DirsListedUnder(d) ==
  IF d \in iterFailed THEN {d}
  ELSE {d} \cup UNION {DirsListedUnder(c) : c \in {n \in Range(children[d]) :
                                                     kind[n] = "dir" /\ ~IsHidden(name[n])}}

\* ---------------------------------------------------------------------- C1
\* C1 as stated: whatever the outcome of sort_directory_entries, the names the
\* directory lists when the call returns are the names it listed before.
C1_SetPreservedAlways ==
  Returned => Range(Listed(Dir)) = Range(PreListed(Dir))

\* C1 amended: when the call returns and no Phase 2 move failed, the directory
\* holds the names it held before the call (the scratch directory of this call
\* aside, which is left when rmdir fails), and no name twice.
C1_SetPreserved ==
  (Returned /\ p2Failed = {}) =>
     /\ Range(Names(Dir)) \ ScratchName = Range(PreNames(Dir)) \ ScratchName
     /\ NoDuplicates(Names(Dir))

\* C1 witness: a reorder that moved entries out and back, every Phase 2 move succeeding, has returned
C1_Witness ==
  /\ Returned /\ result
  /\ p2Failed = {}
  /\ Len(moved_entries) >= 2
  /\ Names(Dir) # PreNames(Dir)

\* ---------------------------------------------------------------------- C2
\* C2: whenever sort_directory_entries returns True, the directory lists its
\* non-hidden names in case-insensitive sorted order.
C2_SortedAfterChanged ==
  (Returned /\ result) => InOrder(Listed(Dir))

\* ---------------------------------------------------------------------- C3
\* C3 as stated: two successive reorders of a directory that is not sorted
\* return True then False, and leave the same order.
C3_ChangedThenUnchanged ==
  \A d \in Nodes : \A i \in 1..(Len(log[d]) - 1) :
    ~InOrder(SelectSeq(log[d][i].before, NotHidden)) =>
       /\ log[d][i].result
       /\ ~log[d][i + 1].result
       /\ log[d][i + 1].after = log[d][i].after

\* C3 amended: when a reorder returned True and had moved every listed entry
\* into scratch (no Phase 1 move failed, no entry was skipped), the next
\* reorder of that directory returns False and leaves the order as the first
\* one left it.
C3_Idempotent ==
  \A d \in Nodes : \A i \in 1..(Len(log[d]) - 1) :
    log[d][i].drained =>
       /\ ~log[d][i + 1].result
       /\ log[d][i + 1].after = log[d][i].after

\* C3 witness: a directory was reordered in full by one run and found sorted by the next
C3_Witness ==
  \E d \in Nodes :
    /\ Len(log[d]) = 2
    /\ log[d][1].drained
    /\ log[d][1].before # log[d][1].after
    /\ ~log[d][2].result

\* ---------------------------------------------------------------------- C4
\* C4: when the listed entries are in case-insensitive sorted order (an empty
\* and a one-entry listing included), the reorder returns False, has created
\* no scratch directory, has attempted no move and has left every directory
\* as it was.
C4_SortedUntouched ==
  (Returned /\ InOrder(current_entries)) =>
     /\ ~result
     /\ temp_dir = Root /\ ~mkdirFailed
     /\ p1Tried = 0 /\ p2Tried = 0
     /\ children = preFs

\* C4 witness: a readable listing of two or more entries, already in order, has been returned from
C4_Witness ==
  /\ Returned
  /\ ~listFailed
  /\ Len(current_entries) >= 2
  /\ InOrder(current_entries)

\* ---------------------------------------------------------------------- C5
\* C5: when a Phase 1 move has failed, the call still returns, the entry whose
\* move failed is in the directory, Phase 2 has been attempted for every entry
\* that was moved into scratch, and every such entry whose own Phase 2 move
\* did not fail is back in the directory; the failure does not end the walk.
C5_Phase1Containment ==
  /\ (Returned /\ p1Failed # {}) =>
        /\ \A nm \in p1Failed : HasName(Dir, nm)
        /\ p2Tried = Len(moved_entries)
        /\ \A nm \in Range(moved_entries) \ p2Failed : HasName(Dir, nm)
        /\ p2Failed = {} => children[temp_dir] = <<>>
  /\ (pc = "exit1") => intr

\* C5 witness: a Phase 1 move failed, the other entries went to scratch and are back
C5_Witness ==
  /\ Returned
  /\ p1Failed # {}
  /\ p2Failed = {}
  /\ Len(moved_entries) >= 2
  /\ \A nm \in Range(moved_entries) : HasName(Dir, nm)

\* ---------------------------------------------------------------------- C6
\* C6: a directory whose listing was unreadable, whose scratch directory could
\* not be created or which had a Phase 2 move fail adds 1 to processed and 0
\* to changed.
C6_FailedNotChanged ==
  (pc = "iter" /\ (listFailed \/ mkdirFailed \/ p2Failed # {})) =>
     /\ Top.processed = 1
     /\ Top.sorted_count = 0

\* ---------------------------------------------------------------------- C7
\* C7: once an interrupt has been delivered in a run, no further move is
\* attempted in that run.
C7_NoMoveAfterInterrupt ==
  [][intr => ~(p1Tried' = p1Tried + 1 \/ p2Tried' = p2Tried + 1)]_vars

\* ---------------------------------------------------------------------- C8
\* C8: no entry whose name starts with '.' is ever the source of a move, part
\* of the listing a reorder works on, or a directory the walk is called on
\* (and so counted in processed); a scratch directory left by an earlier run
\* is such an entry.
C8_HiddenExcluded ==
  /\ \A n \in movedEver : ~IsHidden(name[n])
  /\ \A i \in 1..Len(current_entries) : ~IsHidden(current_entries[i])
  /\ \A i \in 1..Len(visited) : ~IsHidden(name[visited[i]]) /\ visited[i] \notin ScratchNodes
  /\ pc = "done" => final[1] = Len(visited)

\* C8 witness: a second walk has ended over a root that holds .h and a scratch directory, left by
\* the first, with a stranded subdirectory in it
C8_Witness ==
  /\ pc = "done"
  /\ runs = 2
  /\ "hid" \in Range(children[Root])
  /\ \E s \in ScratchNodes :
       /\ s \in Range(children[Root])
       /\ \E n \in Range(children[s]) : kind[n] = "dir"

\* ---------------------------------------------------------------------- C9
\* C9 as stated: the walk returns processed = the number of directories under
\* root (through non-hidden names, root included) and changed = the number of
\* them whose reorder returned True.
C9_CountsAlways ==
  pc = "done" =>
     /\ final[1] = Cardinality(DirsUnder(Root))
     /\ final[2] = Cardinality(changedDirs \cap DirsUnder(Root))

\* C9 amended: the same, for a walk in which no subdirectory listing
\* (the iterdir of the recursion loop) raised; the directories are counted in
\* the tree as it is when the walk returns.
C9_Counts ==
  (pc = "done" /\ iterFailed = {}) =>
     /\ final[1] = Cardinality(DirsUnder(Root))
     /\ final[2] = Cardinality(changedDirs \cap DirsUnder(Root))

\* C9 witness: a walk without listing errors has returned 4 processed, 3 changed
C9_Witness ==
  /\ pc = "done"
  /\ iterFailed = {}
  /\ final[1] = 4
  /\ final[2] = 3

\* --------------------------------------------------------------------- C10
\* C10: nothing but an interrupt ends the walk early, and when the walk
\* returns it has been called on every directory under root that is not below
\* a directory whose subdirectory listing raised: a failed reorder costs no
\* sibling and no directory outside the failed one its turn.
C10_ErrorIsolation ==
  /\ (pc = "exit1") => intr
  /\ (pc = "done") => DirsListedUnder(Root) \subseteq Range(visited)

\* C10 witness: a walk has ended in which a directory failed and a sibling was visited after it
C10_Witness ==
  /\ pc = "done"
  /\ \E i, j \in 1..Len(visited) :
       /\ i < j
       /\ visited[i] \in failedDirs
       /\ \E p \in Nodes : {visited[i], visited[j]} \subseteq Range(children[p])

\* --------------------------------------------------------------------- C11
\* C11: when the creation of the scratch directory has failed (its name taken
\* by an existing directory, or any other error of mkdir), the reorder returns
\* False, has attempted no move, has created nothing, and every directory
\* holds what it held, in the order it held it.
C11_ScratchFailureUntouched ==
  (mkdirFailed /\ pc \in {"ret", "p1", "p1sync", "p2", "p2sync", "rmdir"}) =>
     /\ pc = "ret"
     /\ ~result
     /\ p1Tried = 0 /\ p2Tried = 0
     /\ temp_dir = Root
     /\ children = preFs

\* C11 witness: mkdir found the scratch name taken by a directory an earlier run left, and the
\* reorder of an unsorted listing has returned
C11_Witness ==
  /\ Returned
  /\ mkdirFailed
  /\ HasName(Dir, TempDirName(clock))
  /\ Len(current_entries) >= 2
  /\ ~InOrder(current_entries)

\* --------------------------------------------------------------------- C12
\* C12 as stated: after every reorder, names equal under case-folding stand in
\* the relative order they stood in before it; and a listing whose keys never
\* decrease (it differs from a sorted order among such names only) is left
\* as it is.
C12_StableAlways ==
  /\ \A d \in Nodes : \A i \in 1..Len(log[d]) :
        TiesKept(SelectSeq(log[d][i].before, NotHidden),
                 SelectSeq(log[d][i].after, NotHidden))
  /\ (Returned /\ InOrder(current_entries)) => (~result /\ children = preFs)

\* C12 amended: the same, for a reorder that moved every listed entry into
\* scratch (no Phase 1 move failed and no entry was skipped) or that returned
\* False.
C12_Stable ==
  /\ \A d \in Nodes : \A i \in 1..Len(log[d]) :
        (log[d][i].result => log[d][i].drained) =>
           TiesKept(SelectSeq(log[d][i].before, NotHidden),
                    SelectSeq(log[d][i].after, NotHidden))
  /\ (Returned /\ InOrder(current_entries)) => (~result /\ children = preFs)

\* C12 witness: a listing with two names equal under case-folding was reordered in full, and the
\* next run has found the result, the two still in their first order, already sorted
C12_Witness ==
  /\ Returned
  /\ ~result
  /\ HasTie(current_entries)
  /\ InOrder(current_entries)
  /\ Len(log[Dir]) = 1
  /\ log[Dir][1].drained
  /\ log[Dir][1].before # log[Dir][1].after
  /\ HasTie(log[Dir][1].before)
  /\ current_entries = SelectSeq(log[Dir][1].after, NotHidden)

C14_Phase2Replay ==
  /\ IsPrefix(P2Sources, P1Moved)
  /\ (pc = "rmdir" \/ (Returned /\ temp_dir # Root)) => P2Sources = P1Moved
  /\ InOrder(P1Moved)
  /\ \A i, j \in 1..Len(moves) : i < j => moves[i].phase <= moves[j].phase
  /\ P2Sources # <<>> => Range(P1Attempted) \cup skipped = Range(current_entries)
  /\ Range(P2Sources) \cap (skipped \cup p1Failed) = {}

\* C14 witness: a reorder has returned in which a Phase 1 move failed and Phase 2 moved the two
\* or more other entries back
C14_Witness ==
  /\ Returned
  /\ p1Failed # {}
  /\ Len(P2Sources) >= 2
  /\ P2Sources = P1Moved
  /\ Len(P1Attempted) > Len(P1Moved)

\* --------------------------------------------------------------------- C15
\* C15 as stated: when a reorder that created its scratch directory returns
\* and no Phase 2 move has failed, the scratch directory does not exist.
C15_ScratchGoneAlways ==
  (Returned /\ temp_dir # Root /\ p2Failed = {}) => kind[temp_dir] = "none"

\* C15 amended: when such a reorder returns, the scratch directory is empty,
\* and it does not exist unless rmdir raised; a scratch directory that holds
\* an entry is never removed: it stays a directory of its parent, and when
\* the reorder returns every entry whose Phase 2 move failed is in it.
C15_ScratchLifecycle ==
  /\ (Returned /\ temp_dir # Root /\ p2Failed = {}) =>
        /\ children[temp_dir] = <<>>
        /\ (kind[temp_dir] = "none" \/ rmdirFailed)
  /\ \A s \in ScratchNodes :
        children[s] # <<>> =>
           /\ kind[s] = "dir"
           /\ \E d \in Nodes : kind[d] = "dir" /\ s \in Range(children[d])
  /\ (Returned /\ p2Failed # {}) =>
        /\ \A nm \in p2Failed : HasName(temp_dir, nm)
        /\ temp_dir \in Range(children[Dir])

\* C15 witness: a reorder has returned, all its Phase 2 moves done and its scratch directory
\* gone, in a walk whose earlier reorder left an entry stranded in a scratch directory
C15_Witness ==
  /\ Returned
  /\ temp_dir # Root
  /\ p2Failed = {}
  /\ Len(P2Sources) >= 2
  /\ kind[temp_dir] = "none"
  /\ \E s \in ScratchNodes : children[s] # <<>> /\ kind[s] = "dir"

\* --------------------------------------------------------------------- C16
\* C16: in one walk sort_directory_entries is called once on each directory
\* the walk visits; at most one reorder is running, the reorders end in the
\* order they began, and a directory is visited, and its reorder has ended
\* (both loops and the cleanup, or an earlier return), before the reorder of
\* a directory inside it begins; every activation below the running one has
\* its reorder behind it.
C16_PreOrderOnce ==
  /\ NoDuplicates(visited)
  /\ IsPrefix(ended, visited)
  /\ Len(visited) <= Len(ended) + 1
  /\ \A i, j \in 1..Len(visited) :
        visited[j] \in Range(children[visited[i]]) =>
           /\ i < j
           /\ i <= Len(ended)
  /\ \A i \in 1..(Len(stack) - 1) : stack[i].dir \in Range(ended)
  /\ pc \in {"mkdir", "p1", "p1sync", "p2", "p2sync", "rmdir", "ret"} =>
        /\ Len(visited) = Len(ended) + 1
        /\ visited[Len(visited)] = Dir

\* C16 witness: the walk has returned after four reorders on three levels, the reorder of a
\* subdirectory's subdirectory having moved entries while its ancestors' reorders were over
C16_Witness ==
  /\ pc = "done"
  /\ Len(ended) = 4
  /\ ended = visited
  /\ Cardinality(changedDirs) >= 2
  /\ \E i, j, k \in 1..Len(visited) :
       /\ visited[j] \in Range(children[visited[i]])
       /\ visited[k] \in Range(children[visited[j]])

\* --------------------------------------------------------------------- C17
\* C17: from the creation of the scratch directory to the return of the
\* reorder, whichever moves have failed, every entry of the listing the
\* reorder began with is once in the directory or once in the scratch
\* directory, and not in both.
C17_ExactlyOnePlace ==
  InReorder =>
     \A nm \in Range(current_entries) :
       Occurrences(Dir, nm) + Occurrences(temp_dir, nm) = 1

\* C17 witness: in the middle of Phase 2, after a Phase 1 move has failed, the directory and
\* the scratch directory each hold entries of the listing
C17_Witness ==
  /\ pc = "p2"
  /\ temp_dir # Root
  /\ p1Failed # {}
  /\ P2Sources # <<>>
  /\ \E nm \in Range(current_entries) : Occurrences(temp_dir, nm) = 1
  /\ \E nm \in Range(current_entries) \ p1Failed : Occurrences(Dir, nm) = 1

\* --------------------------------------------------------------------- C18
\* C18: a walk that has been started ends (it returns to main, or an
\* interrupt ends the process), whatever listings, scratch creations and
\* moves fail; and a reorder attempts no more Phase 1 moves and no more
\* Phase 2 moves than it listed entries, and none for the same entry twice.
Halted == pc \in {"start", "done", "exit1"}

C18_TerminatesBounded ==
  /\ [](/\ Len(P1Attempted) <= Len(current_entries)
        /\ Len(P2Sources) <= Len(current_entries)
        /\ NoDuplicates(P1Attempted)
        /\ NoDuplicates(P2Sources)
        /\ p1Tried = Len(P1Attempted)
        /\ p2Tried = Len(P2Sources))
  /\ [](~Halted => <>Halted)

\* C18 witness: a walk over three or more directories has returned, in which a directory met
\* an error and two or more reorders went through their moves
C18_Witness ==
  /\ pc = "done"
  /\ failedDirs # {}
  /\ Len(visited) >= 3
  /\ Cardinality(changedDirs) >= 2
  /\ p1Tried + p2Tried > 0

====
